---- MODULE Spec2Model ----
(***************************************************************************)
(* Implementation metadata records (potentials/Implementation.py) and the  *)
(* Artifact record (potentials/database/Artifact.py): construction,        *)
(* field setters, add_* appends, load from and dump to DataModelDict       *)
(* documents.                                                              *)
(*                                                                         *)
(* Python values are tagged records: None, str (a tuple of characters),    *)
(* int, datetime.date and datetime.datetime.  A DataModelDict is a         *)
(* function from the keys present to their values; a repeated key holds    *)
(* [list |-> <<...>>].  The order of different keys of one DataModelDict   *)
(* is not modelled, the order of the nodes under one repeated key is.      *)
(***************************************************************************)
EXTENDS Integers, Sequences, FiniteSets, TLC

VARIABLES rec,   \* the Implementation the caller holds, or NoRec
          res,   \* the last call: [op, err, ret]
          art,   \* the database Artifact the caller holds, or NoRec
          ares   \* the last call on the Artifact: [op, err, ret]

vars == <<rec, res, art, ares>>

\* ---------------------------------------------------------------- bounds
\* the most leaf records, over the three kinds, the arguments of one call hold
MaxChildren == 2
\* the most parts a record holds: its leaf records plus those of id, type, notes, status
\* and date that differ from their defaults
MaxSize == 3

\* ---------------------------------------------------------------- values
None == [t |-> "none"]
PyS(s) == [t |-> "str", s |-> s]
PyI(n) == [t |-> "int", n |-> n]
PyDate(y, m, d) == [t |-> "date", y |-> y, m |-> m, d |-> d]
PyDateTime(y, m, d, hh, mi, ss) ==
    [t |-> "datetime", y |-> y, m |-> m, d |-> d, hh |-> hh, mi |-> mi, ss |-> ss]

DigitChars == <<"0", "1", "2", "3", "4", "5", "6", "7", "8", "9">>
IsDigit(c) == \E i \in DOMAIN DigitChars : DigitChars[i] = c
DigitVal(c) == (CHOOSE i \in DOMAIN DigitChars : DigitChars[i] = c) - 1

RECURSIVE IntToStr(_)
IntToStr(n) ==
    IF n < 10 THEN <<DigitChars[n + 1]>>
    ELSE IntToStr(n \div 10) \o <<DigitChars[(n % 10) + 1]>>

RECURSIVE ZeroPad(_, _)
ZeroPad(s, w) == IF Len(s) >= w THEN s ELSE ZeroPad(<<"0">> \o s, w)

RECURSIVE StrToInt(_)
StrToInt(s) ==
    IF Len(s) = 0 THEN 0
    ELSE 10 * StrToInt(SubSeq(s, 1, Len(s) - 1)) + DigitVal(s[Len(s)])

AllDigits(s) == \A i \in DOMAIN s : IsDigit(s[i])

\* date.isoformat(): '%04d-%02d-%02d'
IsoFormat(v) ==
    ZeroPad(IntToStr(v.y), 4) \o <<"-">> \o ZeroPad(IntToStr(v.m), 2)
        \o <<"-">> \o ZeroPad(IntToStr(v.d), 2)

\* datetime.isoformat(sep=' ') without microseconds
IsoFormatDateTime(v) ==
    IsoFormat(v) \o <<" ">> \o ZeroPad(IntToStr(v.hh), 2) \o <<":">>
        \o ZeroPad(IntToStr(v.mi), 2) \o <<":">> \o ZeroPad(IntToStr(v.ss), 2)

\* str(v)
PyStr(v) ==
    CASE v.t = "str" -> v.s
      [] v.t = "int" -> IntToStr(v.n)
      [] v.t = "date" -> IsoFormat(v)
      [] v.t = "datetime" -> IsoFormatDateTime(v)
      [] OTHER -> <<"N", "o", "n", "e">>

IsLeap(y) == (y % 4 = 0 /\ y % 100 # 0) \/ y % 400 = 0
DaysInMonth(y, m) ==
    IF m = 2 THEN (IF IsLeap(y) THEN 29 ELSE 28)
    ELSE IF m \in {4, 6, 9, 11} THEN 30 ELSE 31

\* the positions of '-' in s
Dashes(s) == {i \in DOMAIN s : s[i] = "-"}

\* datetime.datetime.strptime(s, '%Y-%m-%d').date(): [ok, val]
Strptime(s) ==
    LET ds == Dashes(s) IN
    IF Cardinality(ds) # 2 THEN [ok |-> FALSE, val |-> None]
    ELSE
      LET i == CHOOSE x \in ds : \A z \in ds : x <= z
          j == CHOOSE x \in ds : \A z \in ds : x >= z
          ys == SubSeq(s, 1, i - 1)
          ms == SubSeq(s, i + 1, j - 1)
          dd == SubSeq(s, j + 1, Len(s))
      IN IF /\ Len(ys) = 4 /\ AllDigits(ys)
            /\ Len(ms) \in {1, 2} /\ AllDigits(ms) /\ StrToInt(ms) \in 1..12
            /\ Len(dd) \in {1, 2} /\ AllDigits(dd) /\ StrToInt(dd) >= 1
            /\ StrToInt(ys) >= 1
            /\ StrToInt(dd) <= DaysInMonth(StrToInt(ys), StrToInt(ms))
         THEN [ok |-> TRUE, val |-> PyDate(StrToInt(ys), StrToInt(ms), StrToInt(dd))]
         ELSE [ok |-> FALSE, val |-> None]

\* datetime.date.today()
Today == PyDate(2026, 11, 4)

\* the strings uuid.uuid4() may return
UUIDs == {<<"u", "1">>, <<"u", "2">>}

Active == <<"a", "c", "t", "i", "v", "e">>

\* ---------------------------------------------------------------- errors
Ok == "ok"
MutexError == "TypeError: model cannot be given with any other parameter"
DateTypeError == "TypeError: Invalid date type"
ValueError == "ValueError"
KeyError == "KeyError"

\* ---------------------------------------------------------------- DataModelDict
EmptyDM == [x \in {} |-> None]
DMSet(dm, k, v) == [x \in DOMAIN dm \cup {k} |-> IF x = k THEN v ELSE dm[x]]
DMGet(dm, k) == IF k \in DOMAIN dm THEN dm[k] ELSE None
DMList(l) == [list |-> l]
IsDMList(v) == DOMAIN v = {"list"}

\* DataModelDict.append(key, value)
DMAppend(dm, k, v) ==
    IF k \notin DOMAIN dm THEN DMSet(dm, k, v)
    ELSE IF IsDMList(dm[k]) THEN DMSet(dm, k, DMList(Append(dm[k].list, v)))
    ELSE DMSet(dm, k, DMList(<<dm[k], v>>))

\* DataModelDict.iteraslist(key)
DMIterAsList(dm, k) ==
    IF k \notin DOMAIN dm THEN <<>>
    ELSE IF IsDMList(dm[k]) THEN dm[k].list
    ELSE <<dm[k]>>

\* DataModelDict.find(key): exactly one element of that key, or ValueError
DMFind(dm, k) ==
    LET m == DMIterAsList(dm, k) IN
    IF Len(m) = 1 THEN [ok |-> TRUE, val |-> m[1]] ELSE [ok |-> FALSE, val |-> None]

\* ---------------------------------------------------------------- field setters
NoRec == [t |-> "norec"]
Unset == [t |-> "unset"]

\* the setters of type, id and notes, and of Artifact's filename, label, url
StrSetter(v) == IF v = None THEN None ELSE PyS(PyStr(v))

\* Implementation.key setter; u is what uuid.uuid4() returns
KeySetter(v, u) == IF v = None THEN PyS(u) ELSE PyS(PyStr(v))

\* a status setter that stores None as it is
StatusSetterKeepsNone(v) == IF v = None THEN None ELSE PyS(PyStr(v))

\* Implementation.status setter
StatusSetter(v) == IF v = None THEN PyS(Active) ELSE PyS(PyStr(v))

\* what the date setter makes of strptime's outcome p
Parsed(p) ==
    IF p.ok THEN [err |-> Ok, val |-> p.val] ELSE [err |-> ValueError, val |-> None]

\* a date setter that stores None as it is
DateSetterKeepsNone(v) ==
    IF v = None THEN [err |-> Ok, val |-> None]
    ELSE IF v.t \in {"date", "datetime"} THEN [err |-> Ok, val |-> v]
    ELSE IF v.t = "str" THEN Parsed(Strptime(v.s))
    ELSE [err |-> DateTypeError, val |-> None]

\* Implementation.date setter: [err, val]
DateSetter(v) ==
    IF v = None THEN [err |-> Ok, val |-> Today]
    ELSE IF v.t \in {"date", "datetime"} THEN [err |-> Ok, val |-> v]
    ELSE IF v.t = "str" THEN Parsed(Strptime(v.s))
    ELSE [err |-> DateTypeError, val |-> None]

\* ---------------------------------------------------------------- leaf records
\* Artifact, Parameter and WebLink as Implementation imports them.
Kinds == {"artifact", "parameter", "web-link"}
LeafFields(kind) ==
    CASE kind = "artifact" -> <<"filename", "label", "url">>
      [] kind = "parameter" -> <<"name", "value", "unit">>
      [] OTHER -> <<"url", "label", "linktext">>
LeafKeys(kind) ==
    CASE kind = "artifact" -> <<"link-text", "label", "URL">>
      [] kind = "parameter" -> <<"name", "value", "unit">>
      [] OTHER -> <<"URL", "label", "link-text">>
FieldSet(kind) == {LeafFields(kind)[i] : i \in 1..3}
KeyOf(kind, f) == LeafKeys(kind)[CHOOSE i \in 1..3 : LeafFields(kind)[i] = f]

\* a leaf field's setter: Parameter.value keeps any scalar, the rest are strings
LeafSetter(kind, f, v) ==
    IF kind = "parameter" /\ f = "value" THEN v ELSE StrSetter(v)

\* the node holding a leaf's children: Artifact nests them in a web-link node
LeafInner(kind, node) ==
    IF kind = "artifact" THEN DMGet(node, "web-link") ELSE node

\* leaf.load(model)
LeafLoad(kind, model) ==
    LET f == DMFind(model, kind) IN
    IF ~f.ok THEN [err |-> ValueError, obj |-> NoRec]
    ELSE LET inner == LeafInner(kind, f.val) IN
         [err |-> Ok,
          obj |-> [x \in FieldSet(kind) |->
                     LeafSetter(kind, x, DMGet(inner, KeyOf(kind, x)))]]

\* Leaf(model=..., f1=..., f2=..., f3=...): kw maps "model" and the fields
LeafNew(kind, kw) ==
    IF kw.model # None
    THEN IF \E x \in FieldSet(kind) : kw[x] # None
         THEN [err |-> MutexError, obj |-> NoRec]
         ELSE LeafLoad(kind, kw.model)
    ELSE [err |-> Ok, obj |-> [x \in FieldSet(kind) |-> LeafSetter(kind, x, kw[x])]]

RECURSIVE SparseDM(_, _, _)
\* the DataModelDict of the leaf's non-null fields among fs
SparseDM(kind, obj, fs) ==
    IF fs = {} THEN EmptyDM
    ELSE LET x == CHOOSE y \in fs : TRUE
             rest == SparseDM(kind, obj, fs \ {x})
         IN IF obj[x] # None THEN DMSet(rest, KeyOf(kind, x), obj[x]) ELSE rest

\* leaf.asmodel()
LeafAsModel(kind, obj) ==
    LET inner == SparseDM(kind, obj, FieldSet(kind)) IN
    DMSet(EmptyDM, kind,
          IF kind = "artifact" THEN DMSet(EmptyDM, "web-link", inner) ELSE inner)

\* ---------------------------------------------------------------- Implementation
PyList(l) == [t |-> "list", l |-> l]

\* the attribute of the Implementation that holds the leaves of a kind
AttrOf(kind) ==
    CASE kind = "artifact" -> "artifacts"
      [] kind = "parameter" -> "parameters"
      [] OTHER -> "weblinks"

\* an object before __init__ has assigned anything
Blank ==
    [key |-> Unset, id |-> Unset, status |-> Unset, date |-> Unset, notes |-> Unset,
     type |-> Unset, artifacts |-> Unset, parameters |-> Unset, weblinks |-> Unset]

\* a leaf constructor's arguments
LeafKw(kind, model, a, b, c) ==
    [x \in FieldSet(kind) \cup {"model"} |->
        IF x = "model" THEN model
        ELSE IF x = LeafFields(kind)[1] THEN a
        ELSE IF x = LeafFields(kind)[2] THEN b ELSE c]

\* an add_<kind> that inserts the leaf l at the front
Prepended(obj, kind, l) ==
    IF l.err # Ok THEN [err |-> l.err, obj |-> obj]
    ELSE [err |-> Ok,
          obj |-> [obj EXCEPT ![AttrOf(kind)] = <<l.obj>> \o obj[AttrOf(kind)]]]

\* self.<attr>.append(l), l the outcome of the leaf's constructor
Appended(obj, kind, l) ==
    IF l.err # Ok THEN [err |-> l.err, obj |-> obj]
    ELSE [err |-> Ok,
          obj |-> [obj EXCEPT ![AttrOf(kind)] = Append(obj[AttrOf(kind)], l.obj)]]

AddLeafPrepends(obj, kind, kw) == Prepended(obj, kind, LeafNew(kind, kw))

\* add_artifact, add_parameter, add_weblink: [err, obj]
AddLeaf(obj, kind, kw) == Appended(obj, kind, LeafNew(kind, kw))

\* the next add_<kind> of a loop, r the outcome so far
AddNext(r, kind, kw) == IF r.err # Ok THEN r ELSE AddLeaf(r.obj, kind, kw)

RECURSIVE AddLeaves(_, _, _)
\* for kw in kws: self.add_<kind>(**kw), stopping at the first that raises
AddLeaves(obj, kind, kws) ==
    IF Len(kws) = 0 THEN [err |-> Ok, obj |-> obj]
    ELSE AddNext(AddLeaves(obj, kind, SubSeq(kws, 1, Len(kws) - 1)), kind, kws[Len(kws)])

\* the keyword arguments load() gives add_<kind> for each node
NodeKws(kind, nodes) ==
    [i \in DOMAIN nodes |->
       LeafKw(kind, DMSet(EmptyDM, kind, nodes[i]), None, None, None)]

\* a load that reads the first node under the key and no other
LoadLeavesFirstOnly(obj, kind, imp) ==
    AddLeaves([obj EXCEPT ![AttrOf(kind)] = <<>>], kind,
              NodeKws(kind, IF Len(DMIterAsList(imp, kind)) = 0 THEN <<>>
                            ELSE <<Head(DMIterAsList(imp, kind))>>))

\* self.<attr> = [] and one add_<kind>(model=DM([(kind, node)])) per node
LoadLeaves(obj, kind, imp) ==
    AddLeaves([obj EXCEPT ![AttrOf(kind)] = <<>>], kind,
              NodeKws(kind, DMIterAsList(imp, kind)))

\* the next loop of load(), r the outcome so far
LoadNext(r, kind, imp) == IF r.err # Ok THEN r ELSE LoadLeaves(r.obj, kind, imp)

\* a load that empties the three lists before it reads the scalar children
LoadHeadClears(obj, imp, u) ==
    [obj EXCEPT !.key = KeySetter(imp["key"], u),
                !.id = StrSetter(DMGet(imp, "id")),
                !.status = StatusSetter(DMGet(imp, "status")),
                !.artifacts = <<>>, !.parameters = <<>>, !.weblinks = <<>>]

\* load(): self.key = imp['key']; self.id = ...; self.status = ...
LoadHead(obj, imp, u) ==
    [obj EXCEPT !.key = KeySetter(imp["key"], u),
                !.id = StrSetter(DMGet(imp, "id")),
                !.status = StatusSetter(DMGet(imp, "status"))]

\* load(): the artifact, parameter and web-link nodes, in that order: [err, obj]
LoadChildren(obj, imp) ==
    LoadNext(LoadNext(LoadLeaves(obj, "artifact", imp), "parameter", imp),
             "web-link", imp)

\* load(): self.notes = imp['notes']['text'] or None, then the child nodes
LoadNotes(obj, imp) ==
    IF "notes" \in DOMAIN imp /\ "text" \notin DOMAIN imp["notes"]
    THEN [err |-> KeyError, obj |-> obj]
    ELSE LoadChildren([obj EXCEPT !.notes = IF "notes" \in DOMAIN imp
                                            THEN StrSetter(imp["notes"]["text"])
                                            ELSE None],
                      imp)

\* load(): self.date = ... with d the date setter's outcome, self.type = ..., the rest
LoadDate(obj, imp, d) ==
    IF d.err # Ok THEN [err |-> d.err, obj |-> obj]
    ELSE LoadNotes([obj EXCEPT !.date = d.val, !.type = StrSetter(DMGet(imp, "type"))],
                   imp)

\* load() from f, the outcome of model.find('implementation')
LoadFound(obj, f, u) ==
    IF ~f.ok THEN [err |-> ValueError, obj |-> obj]
    ELSE IF "key" \notin DOMAIN f.val THEN [err |-> KeyError, obj |-> obj]
    ELSE LoadDate(LoadHead(obj, f.val, u), f.val, DateSetter(DMGet(f.val, "date")))

\* Implementation.load(model): [err, obj]; u is what uuid.uuid4() returns
ImpLoad(obj, model, u) == LoadFound(obj, DMFind(model, "implementation"), u)

\* the arguments checked, with the assertion on weblinks left out
OtherArgsWithoutWeblinks ==
    {"type", "key", "id", "status", "date", "notes", "artifacts", "parameters"}

\* the arguments of Implementation(...) other than model
OtherArgs ==
    {"type", "key", "id", "status", "date", "notes", "artifacts", "parameters", "weblinks"}

\* self.<attr> = []; for x in aslist(arg): self.add_<kind>(**x), when arg is not None
BuildLeaves(obj, kind, arg) ==
    IF arg = None THEN [err |-> Ok, obj |-> [obj EXCEPT ![AttrOf(kind)] = <<>>]]
    ELSE AddLeaves([obj EXCEPT ![AttrOf(kind)] = <<>>], kind, arg.l)

\* the next list of __init__, r the outcome so far
BuildNext(r, kind, arg) == IF r.err # Ok THEN r ELSE BuildLeaves(r.obj, kind, arg)

\* __init__: self.date = ... with d the date setter's outcome, self.notes = ..., the lists
BuildDate(obj, a, d) ==
    IF d.err # Ok THEN [err |-> d.err, obj |-> obj]
    ELSE BuildNext(
           BuildNext(
             BuildLeaves([obj EXCEPT !.date = d.val, !.notes = StrSetter(a.notes)],
                         "artifact", a.artifacts),
             "parameter", a.parameters),
           "web-link", a.weblinks)

\* Implementation.__init__(model, type, ...): [err, obj], obj as __init__ left it
ImpInit(a, u) ==
    IF a.model # None
    THEN IF \E x \in OtherArgs : a[x] # None
         THEN [err |-> MutexError, obj |-> Blank]
         ELSE ImpLoad(Blank, a.model, u)
    ELSE BuildDate([Blank EXCEPT !.type = StrSetter(a.type),
                                 !.key = KeySetter(a.key, u),
                                 !.id = StrSetter(a.id),
                                 !.status = StatusSetter(a.status)],
                   a, DateSetter(a.date))

\* what the caller of Implementation(...) holds afterwards: an exception leaves __init__
\* before the object is returned
Constructed(r) == IF r.err = Ok THEN r.obj ELSE NoRec

RECURSIVE AppendLeaves(_, _, _)
\* for leaf in leaves: imp.append(kind, leaf.asmodel()[kind])
AppendLeaves(imp, kind, leaves) ==
    IF Len(leaves) = 0 THEN imp
    ELSE AppendLeaves(DMAppend(imp, kind, LeafAsModel(kind, Head(leaves))[kind]),
                      kind, Tail(leaves))

\* Implementation.asmodel()
ImpAsModel(obj) ==
    LET i1 == DMSet(EmptyDM, "key", obj.key)
        i2 == IF obj.id # None THEN DMSet(i1, "id", obj.id) ELSE i1
        i3 == DMSet(DMSet(i2, "status", obj.status), "date", PyS(PyStr(obj.date)))
        i4 == IF obj.type # None THEN DMSet(i3, "type", obj.type) ELSE i3
        i5 == IF obj.notes # None
              THEN DMSet(i4, "notes", DMSet(EmptyDM, "text", obj.notes)) ELSE i4
        i6 == AppendLeaves(i5, "artifact", obj.artifacts)
        i7 == AppendLeaves(i6, "parameter", obj.parameters)
    IN DMSet(EmptyDM, "implementation", AppendLeaves(i7, "web-link", obj.weblinks))

\* Implementation.asdict()
ImpAsDict(obj) ==
    [key |-> obj.key, id |-> obj.id, date |-> obj.date, status |-> obj.status,
     notes |-> obj.notes, type |-> obj.type, artifacts |-> obj.artifacts,
     parameters |-> obj.parameters, weblinks |-> obj.weblinks]

\* Implementation.html(): the sections of the string, in order
ImpHtml(obj) ==
    <<[sec |-> "head", type |-> PyStr(obj.type), id |-> PyStr(obj.id)]>>
    \o (IF obj.status # PyS(Active)
        THEN <<[sec |-> "status", status |-> obj.status.s]>> ELSE <<>>)
    \o (IF obj.notes # None THEN <<[sec |-> "notes", notes |-> obj.notes.s]>> ELSE <<>>)
    \o (IF Len(obj.artifacts) > 0
        THEN <<[sec |-> "files", n |-> Len(obj.artifacts)]>> ELSE <<>>)
    \o (IF Len(obj.parameters) > 0
        THEN <<[sec |-> "parameters", n |-> Len(obj.parameters)]>> ELSE <<>>)
    \o (IF Len(obj.weblinks) > 0
        THEN <<[sec |-> "links", n |-> Len(obj.weblinks)]>> ELSE <<>>)

\* ---------------------------------------------------------------- database Artifact
BlankArtifact == [filename |-> Unset, label |-> Unset, url |-> Unset]

\* Artifact.load(model): [err, obj]
ArtifactLoad(obj, model) ==
    LET f == DMFind(model, "archive") IN
    IF ~f.ok THEN [err |-> ValueError, obj |-> obj]
    ELSE IF "web-link" \notin DOMAIN f.val THEN [err |-> KeyError, obj |-> obj]
    ELSE LET w == f.val["web-link"] IN
         [err |-> Ok,
          obj |-> [obj EXCEPT !.url = StrSetter(DMGet(w, "URL")),
                              !.label = StrSetter(DMGet(w, "label")),
                              !.filename = StrSetter(DMGet(w, "link-text"))]]

\* Artifact.__init__(model, filename, label, url): [err, obj]
ArtifactInit(a) ==
    IF a.model # None
    THEN IF a.filename # None \/ a.label # None \/ a.url # None
         THEN [err |-> MutexError, obj |-> BlankArtifact]
         ELSE ArtifactLoad(BlankArtifact, a.model)
    ELSE [err |-> Ok,
          obj |-> [filename |-> StrSetter(a.filename), label |-> StrSetter(a.label),
                   url |-> StrSetter(a.url)]]

\* Artifact.build()
ArtifactBuild(obj) ==
    LET w1 == IF obj.url # None THEN DMSet(EmptyDM, "URL", obj.url) ELSE EmptyDM
        w2 == IF obj.label # None THEN DMSet(w1, "label", obj.label) ELSE w1
        w3 == IF obj.filename # None THEN DMSet(w2, "link-text", obj.filename) ELSE w2
    IN DMSet(EmptyDM, "archive", DMSet(EmptyDM, "web-link", w3))

\* ---------------------------------------------------------------- inputs
TypeIn == {None, PyS(<<"L">>)}
KeyIn == {None, PyS(<<"k">>)}
IdIn == {None, PyI(7)}
StatusIn == {None, PyS(<<"r">>)}
NotesIn == {None, PyS(<<"n">>)}
DateIn ==
    {None, PyDate(2020, 3, 1), PyDateTime(2020, 3, 1, 12, 0, 0),
     PyS(<<"2", "0", "2", "0", "-", "0", "3", "-", "0", "1">>),
     PyS(<<"2", "0", "2", "0", "-", "3", "-", "1">>),
     PyS(<<"2", "0", "2", "0", "-", "0", "2", "-", "3", "0">>),
     PyI(42)}

\* two well-formed nodes of each kind, as a document holds them
NodeA(kind) ==
    CASE kind = "artifact" ->
           DMSet(EmptyDM, "web-link", DMSet(EmptyDM, "link-text", PyS(<<"f">>)))
      [] kind = "parameter" ->
           DMSet(DMSet(EmptyDM, "name", PyS(<<"c">>)), "value", PyI(6))
      [] OTHER -> DMSet(DMSet(EmptyDM, "URL", PyS(<<"x">>)), "label", PyS(<<"r">>))
NodeB(kind) ==
    CASE kind = "artifact" ->
           DMSet(EmptyDM, "web-link", DMSet(EmptyDM, "URL", PyS(<<"x">>)))
      [] kind = "parameter" -> DMSet(EmptyDM, "unit", PyS(<<"A">>))
      [] OTHER -> DMSet(EmptyDM, "link-text", PyI(7))
Nodes(kind) == {NodeA(kind), NodeB(kind)}

\* keyword arguments that build the leaf NodeA holds
KwA(kind) ==
    CASE kind = "artifact" -> LeafKw(kind, None, PyS(<<"f">>), None, None)
      [] kind = "parameter" -> LeafKw(kind, None, PyS(<<"c">>), PyI(6), None)
      [] OTHER -> LeafKw(kind, None, PyS(<<"x">>), PyS(<<"r">>), None)

\* the keyword arguments of an add_<kind> call
LeafIn(kind) ==
    {KwA(kind),
     LeafKw(kind, DMSet(EmptyDM, kind, NodeB(kind)), None, None, None),
     LeafKw(kind, DMSet(EmptyDM, kind, NodeB(kind)), None, PyS(<<"r">>), None)}

SeqsUpTo(S, n) == UNION {[1..k -> S] : k \in 0..n}

\* the value a DataModelDict holds under a repeated key, for a sequence of nodes
Repeated(imp, k, nodes) ==
    IF Len(nodes) = 0 THEN imp
    ELSE IF Len(nodes) = 1 THEN DMSet(imp, k, nodes[1])
    ELSE DMSet(imp, k, DMList(nodes))

Optional(imp, k, v) == IF v = None THEN imp ELSE DMSet(imp, k, v)

\* up to MaxChildren child nodes, over the three kinds
ChildNodes ==
    {c \in SeqsUpTo(Nodes("artifact"), MaxChildren)
             \X SeqsUpTo(Nodes("parameter"), MaxChildren)
             \X SeqsUpTo(Nodes("web-link"), MaxChildren) :
        Len(c[1]) + Len(c[2]) + Len(c[3]) <= MaxChildren}

KeyNodeIn == {None, PyS(<<"k">>), PyI(7)}
DateNodeIn ==
    {None, PyS(<<"2", "0", "2", "0", "-", "0", "3", "-", "0", "1">>),
     PyS(<<"2", "0", "2", "0", "-", "0", "2", "-", "3", "0">>), PyI(42)}
NotesNodeIn == {None, DMSet(EmptyDM, "text", PyS(<<"n">>)), EmptyDM}

\* an implementation subtree: each scalar child absent (None) or present
ImpNode(k, i, s, d, t, n, c) ==
    Repeated(Repeated(Repeated(
        Optional(Optional(Optional(Optional(Optional(Optional(EmptyDM,
            "key", k), "id", i), "status", s), "date", d), "type", t), "notes", n),
        "artifact", c[1]), "parameter", c[2]), "web-link", c[3])

\* a document holding the implementation subtrees imps
Doc(imps) == Repeated(EmptyDM, "implementation", imps)

\* the documents load() is called with on a record that exists
SmallDocs ==
    {Doc(<<>>),
     Doc(<<ImpNode(PyS(<<"k">>), None, None, None, None, None, <<<<>>, <<>>, <<>>>>),
           ImpNode(PyI(7), None, None, None, None, None, <<<<>>, <<>>, <<>>>>)>>),
     Doc(<<ImpNode(None, PyI(7), None, None, None, None, <<<<>>, <<>>, <<>>>>)>>),
     Doc(<<ImpNode(PyS(<<"k">>), None, None, None, None, None, <<<<>>, <<>>, <<>>>>)>>),
     Doc(<<ImpNode(PyI(7), None, PyS(<<"r">>), PyI(42), PyS(<<"L">>), None,
                   <<<<>>, <<>>, <<>>>>)>>),
     Doc(<<ImpNode(PyS(<<"k">>), PyI(7), None, PyS(<<"2", "0", "2", "0", "-", "0", "2", "-", "3", "0">>), None, None,
                   <<<<NodeA("artifact")>>, <<>>, <<>>>>)>>),
     Doc(<<ImpNode(PyS(<<"k">>), None, None, None, PyS(<<"L">>), EmptyDM,
                   <<<<>>, <<>>, <<>>>>)>>),
     Doc(<<ImpNode(PyI(7), None, None, None, None, None,
                   <<<<NodeB("artifact")>>, <<>>, <<NodeA("web-link")>>>>)>>),
     Doc(<<ImpNode(PyS(<<"k">>), None, None, None, None,
                   DMSet(EmptyDM, "text", PyS(<<"n">>)),
                   <<<<>>, <<NodeB("parameter"), NodeA("parameter")>>, <<>>>>)>>)}

\* the artifacts, parameters and weblinks arguments of Implementation(...): None or
\* a list of keyword dicts, up to MaxChildren dicts over the three
ChildArgOf(kind) ==
    {None} \cup {PyList(l) : l \in SeqsUpTo({kw \in LeafIn(kind) :
                                      \A x \in FieldSet(kind) : kw.model = None \/ kw[x] = None},
                                  MaxChildren)}
ArgLen(x) == IF x = None THEN 0 ELSE Len(x.l)
ChildArgs ==
    {c \in ChildArgOf("artifact") \X ChildArgOf("parameter") \X ChildArgOf("web-link") :
        ArgLen(c[1]) + ArgLen(c[2]) + ArgLen(c[3]) <= MaxChildren}

Args(m, t, k, i, s, d, n, c) ==
    [model |-> m, type |-> t, key |-> k, id |-> i, status |-> s, date |-> d,
     notes |-> n, artifacts |-> c[1], parameters |-> c[2], weblinks |-> c[3]]

TotalChildren(r) == Len(r.artifacts) + Len(r.parameters) + Len(r.weblinks)

\* the leaf records of r plus the scalar fields of r that differ from their defaults
Size(r) ==
    TotalChildren(r)
    + Cardinality({f \in {"id", "type", "notes"} : r[f] # None})
    + (IF r.status # PyS(Active) THEN 1 ELSE 0)
    + (IF r.date # Today THEN 1 ELSE 0)

\* the records explored
Bounded(r) == r # NoRec => Size(r) <= MaxSize

\* what uuid.uuid4() may return in a call given the key v: the key setter calls it only
\* for None, and the value is not used otherwise
NoDraw == {CHOOSE u \in UUIDs : TRUE}
Draws(v) == IF v = None THEN UUIDs ELSE NoDraw
LoadDraws(model) ==
    IF "implementation" \in DOMAIN model /\ "key" \in DOMAIN model["implementation"]
    THEN Draws(model["implementation"]["key"])
    ELSE NoDraw

\* ---------------------------------------------------------------- state
NoCall == [op |-> "none", err |-> Ok, ret |-> None, arg |-> None, other |-> FALSE]
Call(op, err, ret, arg, other) ==
    [op |-> op, err |-> err, ret |-> ret, arg |-> arg, other |-> other]

Init == rec = NoRec /\ res = NoCall /\ art = NoRec /\ ares = NoCall

\* ---------------------------------------------------------------- Implementation calls
\* whether the caller gave an argument other than model
GivenOther(a) ==
    \/ a.type # None \/ a.key # None \/ a.id # None \/ a.status # None
    \/ a.date # None \/ a.notes # None
    \/ a.artifacts # None \/ a.parameters # None \/ a.weblinks # None

\* r = Implementation(**a), the first call of a run
New(a, u) ==
    /\ rec = NoRec /\ res = NoCall /\ art = NoRec /\ ares = NoCall
    /\ \E r \in {ImpInit(a, u)} :
       /\ rec' = Constructed(r)
       /\ Bounded(rec')
       /\ res' = Call("new", r.err, None, a.model, GivenOther(a))
    /\ UNCHANGED <<art, ares>>

\* r.type = v
SetType(v) ==
    /\ rec # NoRec
    /\ rec' = [rec EXCEPT !.type = StrSetter(v)]
    /\ Bounded(rec')
    /\ res' = Call("set_type", Ok, None, v, FALSE)
    /\ UNCHANGED <<art, ares>>

\* r.key = v
SetKey(v, u) ==
    /\ rec # NoRec
    /\ rec' = [rec EXCEPT !.key = KeySetter(v, u)]
    /\ res' = Call("set_key", Ok, None, v, FALSE)
    /\ UNCHANGED <<art, ares>>

\* an id setter that writes the key's attribute
SetIdWritesKey(v) ==
    /\ rec # NoRec
    /\ rec' = [rec EXCEPT !.key = StrSetter(v)]
    /\ Bounded(rec')
    /\ res' = Call("set_id", Ok, None, v, FALSE)
    /\ UNCHANGED <<art, ares>>

\* r.id = v
SetId(v) ==
    /\ rec # NoRec
    /\ rec' = [rec EXCEPT !.id = StrSetter(v)]
    /\ Bounded(rec')
    /\ res' = Call("set_id", Ok, None, v, FALSE)
    /\ UNCHANGED <<art, ares>>

\* r.status = v
SetStatus(v) ==
    /\ rec # NoRec
    /\ rec' = [rec EXCEPT !.status = StatusSetter(v)]
    /\ Bounded(rec')
    /\ res' = Call("set_status", Ok, None, v, FALSE)
    /\ UNCHANGED <<art, ares>>

\* r.date = v
SetDate(v) ==
    /\ rec # NoRec
    /\ \E d \in {DateSetter(v)} :
       /\ rec' = IF d.err = Ok THEN [rec EXCEPT !.date = d.val] ELSE rec
       /\ Bounded(rec')
       /\ res' = Call("set_date", d.err, None, v, FALSE)
    /\ UNCHANGED <<art, ares>>

\* r.notes = v
SetNotes(v) ==
    /\ rec # NoRec
    /\ rec' = [rec EXCEPT !.notes = StrSetter(v)]
    /\ Bounded(rec')
    /\ res' = Call("set_notes", Ok, None, v, FALSE)
    /\ UNCHANGED <<art, ares>>

AddOp(kind) ==
    CASE kind = "artifact" -> "add_artifact"
      [] kind = "parameter" -> "add_parameter"
      [] OTHER -> "add_weblink"

\* r.add_artifact(**kw), r.add_parameter(**kw), r.add_weblink(**kw)
Add(kind, kw) ==
    /\ rec # NoRec
    /\ \E r \in {AddLeaf(rec, kind, kw)} :
       /\ rec' = r.obj
       /\ Bounded(rec')
       /\ res' = Call(AddOp(kind), r.err, None, kw, FALSE)
    /\ UNCHANGED <<art, ares>>

AddArtifact(kw) == Add("artifact", kw)
AddParameter(kw) == Add("parameter", kw)
AddWeblink(kw) == Add("web-link", kw)

\* r.load(model)
Load(model, u) ==
    /\ rec # NoRec
    /\ \E r \in {ImpLoad(rec, model, u)} :
       /\ rec' = r.obj
       /\ Bounded(rec')
       /\ res' = Call("load", r.err, None, model, FALSE)
    /\ UNCHANGED <<art, ares>>

\* r.asmodel()
AsModel ==
    /\ rec # NoRec
    /\ res' = Call("asmodel", Ok, ImpAsModel(rec), None, FALSE)
    /\ UNCHANGED <<rec, art, ares>>

\* r.asdict()
AsDict ==
    /\ rec # NoRec
    /\ res' = Call("asdict", Ok, ImpAsDict(rec), None, FALSE)
    /\ UNCHANGED <<rec, art, ares>>

\* r.html()
Html ==
    /\ rec # NoRec
    /\ res' = Call("html", Ok, [html |-> ImpHtml(rec)], None, FALSE)
    /\ UNCHANGED <<rec, art, ares>>

\* ---------------------------------------------------------------- Artifact calls
FilenameIn == {None, PyS(<<"f">>), PyI(7)}
LabelIn == {None, PyS(<<"r">>)}
UrlIn == {None, PyS(<<"x">>)}

\* a web-link node: each child absent (None) or present
WebLinkNode(u, l, f) ==
    Optional(Optional(Optional(EmptyDM, "URL", u), "label", l), "link-text", f)

\* documents an Artifact is loaded from: no archive, an archive without a web-link,
\* two archives, or one archive with a web-link
ArtifactDocs ==
    {EmptyDM,
     DMSet(EmptyDM, "archive", EmptyDM),
     Repeated(EmptyDM, "archive",
              <<DMSet(EmptyDM, "web-link", EmptyDM), DMSet(EmptyDM, "web-link", EmptyDM)>>)}
    \cup {DMSet(EmptyDM, "archive", DMSet(EmptyDM, "web-link", WebLinkNode(u, l, f))) :
            u \in UrlIn, l \in LabelIn, f \in FilenameIn}

ArtifactArgs(m, f, l, u) == [model |-> m, filename |-> f, label |-> l, url |-> u]

\* a = Artifact(**x); a run works on an Artifact or on an Implementation
ArtNew(x) ==
    /\ art = NoRec /\ ares = NoCall /\ rec = NoRec /\ res = NoCall
    /\ \E r \in {ArtifactInit(x)} :
       /\ art' = Constructed(r)
       /\ ares' = Call("new", r.err, None, x.model,
                       x.filename # None \/ x.label # None \/ x.url # None)
    /\ UNCHANGED <<rec, res>>

\* a.filename = v
ArtSetFilename(v) ==
    /\ art # NoRec
    /\ art' = [art EXCEPT !.filename = StrSetter(v)]
    /\ ares' = Call("set_filename", Ok, None, v, FALSE)
    /\ UNCHANGED <<rec, res>>

\* a.label = v
ArtSetLabel(v) ==
    /\ art # NoRec
    /\ art' = [art EXCEPT !.label = StrSetter(v)]
    /\ ares' = Call("set_label", Ok, None, v, FALSE)
    /\ UNCHANGED <<rec, res>>

\* a.url = v
ArtSetUrl(v) ==
    /\ art # NoRec
    /\ art' = [art EXCEPT !.url = StrSetter(v)]
    /\ ares' = Call("set_url", Ok, None, v, FALSE)
    /\ UNCHANGED <<rec, res>>

\* a.load(model)
ArtLoad(model) ==
    /\ art # NoRec
    /\ \E r \in {ArtifactLoad(art, model)} :
       /\ art' = r.obj
       /\ ares' = Call("load", r.err, None, model, FALSE)
    /\ UNCHANGED <<rec, res>>

\* a.build()
ArtBuild ==
    /\ art # NoRec
    /\ ares' = Call("build", Ok, ArtifactBuild(art), None, FALSE)
    /\ UNCHANGED <<art, rec, res>>

\* the caller lets go of the Artifact
ArtDrop ==
    /\ art # NoRec
    /\ art' = NoRec /\ ares' = NoCall
    /\ UNCHANGED <<rec, res>>

\* ---------------------------------------------------------------- specification
\* the document of the last asmodel() call, when there is one
LastModel == IF res.op = "asmodel" THEN {res.ret} ELSE {}
LastBuild == IF ares.op = "build" THEN {ares.ret} ELSE {}

NewBuild ==
    /\ rec = NoRec /\ res = NoCall /\ ares = NoCall
    /\ \E m \in {None, Doc(<<ImpNode(PyS(<<"k">>), None, None, None, None, None,
                                     <<<<>>, <<>>, <<>>>>)>>)},
          t \in TypeIn, k \in KeyIn, i \in IdIn, s \in StatusIn, d \in DateIn,
          n \in NotesIn, c \in ChildArgs :
        \E u \in (IF m = None THEN Draws(k) ELSE NoDraw) :
            New(Args(m, t, k, i, s, d, n, c), u)

NewLoad ==
    /\ rec = NoRec /\ res = NoCall /\ ares = NoCall
    /\ \/ \E m \in SmallDocs : \E u \in LoadDraws(m) :
            New(Args(m, None, None, None, None, None, None, <<None, None, None>>), u)
       \/ \E k \in KeyNodeIn, i \in IdIn, s \in StatusIn, d \in DateNodeIn, t \in TypeIn,
             n \in NotesNodeIn, c \in ChildNodes : \E u \in Draws(k) :
            New(Args(Doc(<<ImpNode(k, i, s, d, t, n, c)>>),
                     None, None, None, None, None, None, <<None, None, None>>), u)

Setters ==
    /\ rec # NoRec
    /\ \/ \E v \in TypeIn : SetType(v)
       \/ \E v \in KeyIn : \E u \in Draws(v) : SetKey(v, u)
       \/ \E v \in IdIn : SetId(v)
       \/ \E v \in StatusIn : SetStatus(v)
       \/ \E v \in DateIn : SetDate(v)
       \/ \E v \in NotesIn : SetNotes(v)

Adds ==
    /\ rec # NoRec
    /\ \/ \E kw \in LeafIn("artifact") : AddArtifact(kw)
       \/ \E kw \in LeafIn("parameter") : AddParameter(kw)
       \/ \E kw \in LeafIn("web-link") : AddWeblink(kw)

Loads ==
    /\ rec # NoRec
    /\ \E m \in SmallDocs \cup LastModel : \E u \in LoadDraws(m) : Load(m, u)

ArtNews ==
    /\ art = NoRec /\ ares = NoCall /\ rec = NoRec /\ res = NoCall
    /\ \E m \in {None} \cup ArtifactDocs, f \in FilenameIn, l \in LabelIn, u \in UrlIn :
        ArtNew(ArtifactArgs(m, f, l, u))

ArtCalls ==
    /\ art # NoRec
    /\ \/ \E v \in FilenameIn : ArtSetFilename(v)
       \/ \E v \in LabelIn : ArtSetLabel(v)
       \/ \E v \in UrlIn : ArtSetUrl(v)
       \/ \E m \in ArtifactDocs \cup LastBuild : ArtLoad(m)
       \/ ArtBuild
       \/ ArtDrop

Next ==
    \/ NewBuild
    \/ NewLoad
    \/ Setters
    \/ Adds
    \/ Loads
    \/ AsModel
    \/ AsDict
    \/ Html
    \/ ArtNews
    \/ ArtCalls

Spec == Init /\ [][Next]_vars

\* ---------------------------------------------------------------- properties
\* the number of nodes a DataModelDict holds under a key, and the i-th of them
Occurrences(dm, k) ==
    IF k \notin DOMAIN dm THEN 0
    ELSE IF IsDMList(dm[k]) THEN Len(dm[k].list) ELSE 1
Occurrence(dm, k, i) == IF IsDMList(dm[k]) THEN dm[k].list[i] ELSE dm[k]

Scalars == {"key", "id", "status", "date", "notes", "type"}
SetOps == {"set_type", "set_key", "set_id", "set_status", "set_date", "set_notes"}
Nullable == {"id", "type", "notes"}

\* asmodel() followed by load() of the document it returned
Reloads == res.op = "asmodel" /\ res'.op = "load" /\ res'.arg = res.ret
\* build() followed by load() of the document it returned
ArtReloads == ares.op = "build" /\ ares'.op = "load" /\ ares'.arg = ares.ret

\* C1: loading the document asmodel() returns succeeds and yields a record equal to
\* the one dumped, in every scalar field and in the three child sequences.
C1_RoundTrip == [][Reloads => (res'.err = Ok /\ rec' = rec)]_vars

C3_NonNull ==
    /\ rec # NoRec =>
         /\ rec.key.t = "str" /\ rec.status.t = "str"
         /\ rec.date.t \in {"date", "datetime"}
    /\ (res.op = "new" /\ res.err = Ok /\ res.arg = None /\ ~res.other) =>
         /\ rec.key.s \in UUIDs /\ rec.status = PyS(Active) /\ rec.date = Today
         /\ rec.artifacts = <<>> /\ rec.parameters = <<>> /\ rec.weblinks = <<>>

C3_Witness == res.op = "set_status" /\ res.arg = None /\ rec.status = PyS(Active)

\* C4 as claimed: no call on a record changes its key.
C4_KeyImmutable == [][(rec # NoRec /\ rec' # NoRec) => rec'.key = rec.key]_vars

\* C4 as amended: only the key setter and load() change the key of a record.
C4_KeyChangedOnlyBySetterOrLoad ==
    [][(rec # NoRec /\ rec' # NoRec /\ res'.op \notin {"set_key", "load"})
          => rec'.key = rec.key]_vars

C4_Witness ==
    /\ res.op = "add_artifact" /\ res.err = Ok
    /\ Len(rec.artifacts) > 0 /\ rec.key = PyS(<<"7">>)

\* C5: asmodel() and build() emit a child key for a nullable field exactly when the
\* field is not None (key, status and date always), and loading the emitted document
\* yields None for exactly the fields that were None.
C5_SparseEmission ==
    [][/\ res'.op = "asmodel" =>
            LET imp == res'.ret["implementation"] IN
            /\ {"key", "status", "date"} \subseteq DOMAIN imp
            /\ \A f \in Nullable : (f \in DOMAIN imp) <=> (rec'[f] # None)
       /\ Reloads =>
            /\ res'.err = Ok
            /\ \A f \in Nullable : (rec'[f] = None) <=> (rec[f] = None)
       /\ ares'.op = "build" =>
            LET w == ares'.ret["archive"]["web-link"] IN
            /\ ("URL" \in DOMAIN w) <=> (art'.url # None)
            /\ ("label" \in DOMAIN w) <=> (art'.label # None)
            /\ ("link-text" \in DOMAIN w) <=> (art'.filename # None)
       /\ ArtReloads =>
            /\ ares'.err = Ok
            /\ \A f \in {"url", "label", "filename"} : (art'[f] = None) <=> (art[f] = None)
      ]_vars

\* C6: a successful load leaves, for each kind, exactly one leaf per node the
\* implementation subtree holds under that key (none, one, or a list), the i-th leaf
\* loaded from the i-th node, whatever the sequence held before.
C6_RepeatedNodes ==
    (res.op \in {"load", "new"} /\ res.arg # None /\ res.err = Ok) =>
        LET imp == res.arg["implementation"] IN
        \A kind \in Kinds :
            /\ Len(rec[AttrOf(kind)]) = Occurrences(imp, kind)
            /\ \A i \in 1..Occurrences(imp, kind) :
                 rec[AttrOf(kind)][i] =
                    LeafLoad(kind, DMSet(EmptyDM, kind, Occurrence(imp, kind, i))).obj

C6_Witness ==
    /\ res.op = "load" /\ res.err = Ok
    /\ Occurrences(res.arg["implementation"], "parameter") = 2
    /\ rec.parameters[1] # rec.parameters[2]

Structural(doc) ==
    \/ Occurrences(doc, "implementation") # 1
    \/ "key" \notin DOMAIN doc["implementation"]

C8_StructuralErrors ==
    (res.op = "load" \/ (res.op = "new" /\ res.arg # None /\ ~res.other)) =>
        /\ Occurrences(res.arg, "implementation") # 1 => res.err = ValueError
        /\ Occurrences(res.arg, "implementation") = 1 =>
             LET imp == res.arg["implementation"] IN
             /\ "key" \notin DOMAIN imp => res.err = KeyError
             /\ ("key" \in DOMAIN imp /\ DOMAIN imp \cap (Scalars \ {"key"}) = {}) =>
                  /\ res.err = Ok
                  /\ rec.id = None /\ rec.type = None /\ rec.notes = None
                  /\ rec.status = PyS(Active) /\ rec.date = Today

C8_Witness ==
    /\ res.op = "load" /\ res.err = Ok
    /\ DOMAIN res.arg["implementation"] = {"key"}
    /\ rec.date = Today /\ rec.status = PyS(Active)

\* C9: the date setter stores today for None, a date as given, the parsed date for a
\* YYYY-MM-DD string, raises 'Invalid date type' for any other type, and what it
\* stores is a calendar date whose str() the setter accepts again.
C9_DateSetter ==
    res.op = "set_date" =>
        LET v == res.arg IN
        /\ v = None => (res.err = Ok /\ rec.date = Today)
        /\ v.t \in {"date", "datetime"} => (res.err = Ok /\ rec.date = v)
        /\ v = PyS(IsoFormat(PyDate(2020, 3, 1))) =>
             (res.err = Ok /\ rec.date = PyDate(2020, 3, 1))
        /\ v.t = "int" => res.err = DateTypeError
        /\ res.err = Ok =>
             /\ rec.date.t = "date"
             /\ DateSetter(PyS(PyStr(rec.date))) = [err |-> Ok, val |-> rec.date]

\* C10: an add_* call that returns appends one leaf, the one built from its
\* arguments, at the end of its own sequence; it changes no scalar field and no other
\* sequence; a setter changes no sequence.
C10_AppendOnly ==
    [][(rec # NoRec /\ rec' # NoRec) =>
        /\ \A kind \in Kinds :
             res'.op = AddOp(kind) =>
                LET old == rec[AttrOf(kind)]
                    new == rec'[AttrOf(kind)]
                IN /\ \A f \in Scalars : rec'[f] = rec[f]
                   /\ \A k \in Kinds \ {kind} : rec'[AttrOf(k)] = rec[AttrOf(k)]
                   /\ IF res'.err = Ok
                      THEN /\ Len(new) = Len(old) + 1
                           /\ SubSeq(new, 1, Len(old)) = old
                           /\ new[Len(new)] = LeafNew(kind, res'.arg).obj
                      ELSE new = old
        /\ res'.op \in SetOps =>
             \A kind \in Kinds : rec'[AttrOf(kind)] = rec[AttrOf(kind)]
      ]_vars

C10_Witness ==
    /\ res.op = "add_artifact" /\ res.err = Ok
    /\ Len(rec.artifacts) = 2 /\ rec.artifacts[1] # rec.artifacts[2]

====
